---------------------------- MODULE Spec2Model ----------------------------
(***************************************************************************)
(* Better-Port: the lifecycle manager BaseBetterPort (src/lib/UDP.ts       *)
(* 593-772) driving one transport adapter: Serial (src/lib/UDP.ts 180-285),*)
(* UDP (src/lib/UDP.ts 12-173) or TCP (src/lib/index.ts 271-371).          *)
(*                                                                         *)
(* Execution model.  The program is single-threaded JavaScript: one action *)
(* of the model is one macrotask (a caller's call, a timer, an I/O         *)
(* completion of a transport handle) run to completion, followed by the    *)
(* promise continuations (microtasks) it makes runnable, in FIFO order     *)
(* (operator Drain).  What waits for a later macrotask is an entry of      *)
(* `tasks`.                                                                *)
(*                                                                         *)
(* Transport handles (SerialPort, dgram.Socket, net.Socket) are the        *)
(* environment; what the model assumes of them is stated at each           *)
(* environment action.                                                     *)
(***************************************************************************)
EXTENDS Naturals, Integers, Sequences, FiniteSets, TLC

\* ------------------------------------------------------------------ bounds
MaxHandles == 3     \* handle slots alive at the same time
MaxCalls == 2       \* caller API calls (openPort / closePort / write / pipe) per run
MaxFaults == 1      \* environment faults per run
MaxSilences == 1    \* times per run the line stays silent for disconnectTimeoutMS
Cap == 2            \* the monitors of repeated events saturate here
DisconnectTicks == 2 \* disconnectTimeoutMS, in clock ticks
MaxAddrs == 2       \* distinct addresses that send datagrams
MaxPorts == 2       \* distinct source ports of a sender
MaxSinks == 2       \* distinct destinations the caller pipes to
MaxAtt == 4         \* attachments of the raw stream that are recorded (the last ones)

\* The adapter a manager is constructed with: BetterSerialPort and
\* BetterUDPPort (UDP.ts 775-786); the TCP adapter (index.ts 271-371) is a
\* BetterPortI driven by the same BaseBetterPort (README: BetterTCPPort).
Kinds == {"serial", "udp", "tcp"}
NoH == 0
Handles == 1..MaxHandles
Addrs == 1..MaxAddrs
Ports == 1..MaxPorts
NoPort == 0
Sinks == 1..MaxSinks
\* The managers of the process: the one whose operations the actions are, and
\* another BaseBetterPort that was constructed in the same process.
Me == 1
Other == 2

VARIABLES
  kind,           \* which adapter the manager was constructed with
  closeOnNoData,  \* BaseBetterPort.closeOnNoData
  ipSet,          \* UDP: options.ip is configured (fixed peer list)
  sendPort,       \* UDP: options.sendPort, NoPort = undefined
  sendWhenOpened, \* BaseBetterPort.sendWhenOpened is set
  keepOpen,       \* BaseBetterPort.keepOpen
  pipes,          \* BaseBetterPort.pipes: the registrations [destination, returnPipe]
  att,            \* destinations piped to the adapter's current raw stream, in order
  timer,          \* BaseBetterPort.disconnectedChecker: ticks left, -1 = none
  port,           \* adapter.port: the current handle, NoH = undefined
  connected,      \* UDP.connected
  clients,        \* UDP.clients: the registry, a list of [ip, port]
  ctimer,         \* TCP.connectionTimeout: id of the timer in the slot, 0 = none
  hs,             \* the transport handles that still exist
  tasks,          \* continuations waiting for a timer or an I/O completion
  devExists,      \* environment: the serial device is listed by SerialPort.list()
  ev,             \* the manager's events emitted by the last step, in order
  obs,            \* what the last step let the caller observe
  hist,           \* monitors of the run so far
  exitL,          \* process: whose handlers listen to "exit" and "SIGINT", in order
  calls, faults,  \* stimuli used so far
  silences

vars == << kind, closeOnNoData, ipSet, sendPort, sendWhenOpened, keepOpen, pipes, att,
           timer, port, connected, clients, ctimer, hs, tasks, devExists, ev, obs, hist, exitL,
           calls, faults, silences >>

\* ------------------------------------------------- the state, as one record
\* The handlers below are functions from state to state, so that a handler
\* that calls another is their composition.  `q` is the microtask queue; it
\* is empty between two actions.
NoWrite == [called |-> FALSE, ret |-> FALSE, err |-> FALSE, sent |-> FALSE, to |-> {}]
NoObs == [ores |-> "none", cres |-> "none", wr |-> NoWrite,
          hung |-> FALSE, leaked |-> FALSE, dropped |-> FALSE,
          threw |-> FALSE, pret |-> 0, overwrote |-> FALSE, openShut |-> FALSE]

Cur ==
  [ keepOpen |-> keepOpen, pipes |-> pipes, att |-> att,
    timer |-> timer, port |-> port,
    connected |-> connected, clients |-> clients, ctimer |-> ctimer,
    hs |-> hs, tasks |-> tasks, ev |-> << >>, obs |-> NoObs, hist |-> hist,
    exitL |-> exitL, q |-> << >> ]

FreeH == [st |-> "free", lst |-> FALSE, ending |-> FALSE]

\* A continuation: c what it is, h the handle it hangs on, th what the
\* awaiting code does next, org whose openPort it belongs to, id/tm its timer.
T(c, h, th, org, id, tm) ==
  [c |-> c, h |-> h, th |-> th, org |-> org, id |-> id, tm |-> tm]
Wait(c, h, th, org) == T(c, h, th, org, 0, FALSE)

Enq(s, m) == [s EXCEPT !.q = Append(@, m)]

\* The waiting continuations are independent of each other except for the
\* callbacks of end() on one socket, which run in the order of the calls:
\* `tasks` is kept in the order of Key, a new entry after its equals.
Names == << "autoOpen", "exists", "openWait", "closeWait", "endWait", "connTimer",
            "settle", "delay", "retryDelay", "none", "caller", "auto", "loop",
            "open", "tcpOpen" >>
Idx(x) == CHOOSE i \in 1..Len(Names) : Names[i] = x
Key(t) ==
  IF t.c = "endWait" THEN << Idx(t.c), t.h, 0, 0 >>
  ELSE << Idx(t.c), t.h, Idx(t.th), Idx(t.org) >>
Before(a, b) ==
  \E i \in 1..4 : a[i] < b[i] /\ \A j \in 1..(i - 1) : a[j] = b[j]
AddTask(s, t) ==
  LET n == Cardinality({i \in 1..Len(s.tasks) : ~Before(Key(t), Key(s.tasks[i]))})
  IN [s EXCEPT !.tasks = SubSeq(@, 1, n) \o << t >> \o SubSeq(@, n + 1, Len(@))]
RemoveAt(seq, i) == SubSeq(seq, 1, i - 1) \o SubSeq(seq, i + 1, Len(seq))
Bump(n) == IF n < Cap THEN n + 1 ELSE Cap

\* EventEmitter.emit of the manager's public events.  hist.no: `open` events
\* since the last `close`; hist.nc: `close` events since the last `open`;
\* hist.sinceData: ticks since the last `data` event; hist.shut: the caller
\* called closePort and no `open` was emitted since.
Emit(s, e) ==
  [s EXCEPT !.ev = Append(@, e),
            !.hist.shut = IF e = "open" THEN FALSE ELSE @,
            !.hist.no = IF e = "open" THEN Bump(@) ELSE IF e = "close" THEN 0 ELSE @,
            !.hist.nc = IF e = "close" THEN Bump(@) ELSE IF e = "open" THEN 0 ELSE @,
            !.hist.sinceData = IF e = "data" THEN 0 ELSE @]

\* ------------------------------------------------------------ the adapters
\* isOpen: UDP.ts 20-22 (UDP), 185-187 (Serial), index.ts 279 (TCP).
\* SerialPort.isOpen is false while the port is opening or closing;
\* net.Socket.closed turns true when the socket is destroyed.
isOpen(s) ==
  /\ s.port # NoH
  /\ CASE kind = "serial" -> s.hs[s.port].st = "open"
       [] kind = "udp"    -> s.connected
       [] OTHER           -> s.hs[s.port].st \in {"opening", "open"}

\* writable: UDP.ts 28-30, 188-190, index.ts 281.
writable(s) ==
  CASE kind = "serial" -> s.port # NoH
    [] kind = "udp"    -> isOpen(s)
    [] OTHER           -> isOpen(s) /\ ~s.hs[s.port].ending

\* clearTimeout(self.connectionTimeout) of the TCP adapter.
ClearSlot(s) ==
  IF s.ctimer = 0 THEN s
  ELSE LET keep(t) == ~(t.c = "connTimer" /\ t.id = s.ctimer)
           off(t) == IF t.id = s.ctimer THEN [t EXCEPT !.tm = FALSE] ELSE t
           kept == SelectSeq(s.tasks, keep)
       IN [s EXCEPT !.ctimer = 0,
                    !.tasks = [i \in 1..Len(kept) |-> off(kept[i])]]

FreshId(s) ==
  CHOOSE i \in 1..(Len(s.tasks) + 1) :
    \A k \in 1..Len(s.tasks) : s.tasks[k].id # i

\* `destroy` of Serial.closePort (UDP.ts 244-250) and UDP.closePort
\* (UDP.ts 127-136): forget the handle, then the settling delay.  The raw
\* stream goes with it: removeAllListeners() takes the pipes off a SerialPort,
\* the UDP adapter makes a new PassThrough (UDP.ts 129).  A bind
\* callback of the UDP socket is a `listening` listener and goes with the
\* other listeners: the openPort promise waiting for it never settles.
SUDestroy(s, th, org) ==
  LET p == s.port
      lost(t) == kind = "udp" /\ p # NoH /\ t.c = "openWait" /\ t.h = p
      s1 == IF p = NoH THEN s
            ELSE [s EXCEPT !.hs[p].lst = FALSE, !.port = NoH, !.att = << >>,
                           !.tasks = SelectSeq(@, LAMBDA t : ~lost(t)),
                           !.obs.hung = @ \/ (\E i \in 1..Len(s.tasks) : lost(s.tasks[i]))]
      s2 == IF kind = "udp" /\ ~ipSet THEN [s1 EXCEPT !.clients = << >>] ELSE s1
  IN IF th = "none" THEN s2 ELSE AddTask(s2, Wait("settle", NoH, th, org))

\* `destroy` of TCP.closePort (index.ts 338-342).  socket.destroy() runs the
\* callbacks of pending end() calls and later emits `close`.
TcpDestroy(s, th, org) ==
  LET p == s.port
      live == p # NoH /\ s.hs[p].st \in {"opening", "open"}
      pend == IF live THEN SelectSeq(s.tasks, LAMBDA t : t.c = "endWait" /\ t.h = p)
              ELSE << >>
      s1 == IF live THEN [s EXCEPT !.hs[p].st = "destroyed"] ELSE s
      s2 == [s1 EXCEPT !.port = NoH,
                       !.q = @ \o [i \in 1..Len(pend) |-> [pend[i] EXCEPT !.c = "endCb"]]]
  IN Enq(s2, Wait("then", NoH, th, org))

\* closePort of the adapter: UDP.ts 238-257 (Serial), 121-143 (UDP),
\* index.ts 330-355 (TCP).  th/org: what the caller of closePort awaits.
AdapterClosePort(s, th, org) ==
  CASE kind = "serial" ->
         IF s.port = NoH THEN Enq(s, Wait("then", NoH, th, org))
         ELSE IF s.hs[s.port].st # "open" THEN SUDestroy(s, th, org)
         ELSE AddTask([s EXCEPT !.hs[s.port].st = "closing"],
                      Wait("closeWait", s.port, th, org))
    [] kind = "udp" ->
         IF s.port = NoH THEN Enq(s, Wait("then", NoH, th, org))
         ELSE IF ~s.connected THEN SUDestroy(s, th, org)
         ELSE IF s.hs[s.port].st \in {"opening", "open", "failed"}
              \* dgram close(): `close` is emitted on the next tick
              THEN Enq([s EXCEPT !.connected = FALSE, !.hs[s.port].st = "closed"],
                       Wait("udpClosed", s.port, th, org))
              \* close() of a socket that is not running throws inside the
              \* async executor: the promise never settles
              ELSE [s EXCEPT !.connected = FALSE, !.obs.hung = TRUE]
    [] OTHER ->
         LET s1 == ClearSlot(s)
             p == s1.port
             id == FreshId(s1)
             gone == s1.hs[p].st \in {"destroyed", "closed"}
             s2 == AddTask([s1 EXCEPT !.ctimer = id, !.hs[p].ending = TRUE],
                           T("endWait", p, th, org, id, TRUE))
         IN IF p = NoH THEN Enq(s1, Wait("then", NoH, th, org))
            \* end(cb) of a destroyed socket calls cb on the next tick
            ELSE IF gone THEN Enq(s2, T("endCb", p, th, org, id, FALSE))
            ELSE s2

\* process.removeListener(name, this.closePort): UDP.ts 739-740.  closePort
\* is a method of the prototype, the same function for every manager, and
\* removeListener takes off the one instance of it that was added last.
Unlisten(s) ==
  [s EXCEPT !.exitL = IF @ = << >> THEN @ ELSE SubSeq(@, 1, Len(@) - 1)]

\* closePort of the manager: UDP.ts 737-742.
\* (variant: a closePort that emits `close` itself)
ManagerClosePort_Announces(s, keepClosed, th, org) ==
  Emit(AdapterClosePort(Unlisten([s EXCEPT !.keepOpen = @ /\ ~keepClosed]), th, org),
       "close")
ManagerClosePort(s, keepClosed, th, org) ==
  AdapterClosePort(Unlisten(IF keepClosed THEN [s EXCEPT !.keepOpen = FALSE] ELSE s), th, org)

\* ------------------------------------------------------------- the manager
\* portOpen: UDP.ts 653-655.
portOpen(s) == isOpen(s)

\* The manager's promise of openPort settles: what its awaiter does.
\*   caller: the caller sees the result;
\*   auto:   the constructor's auto-open, UDP.ts 632-633 (no openCallback);
\*   loop:   tryIt of the reconnect loop, UDP.ts 686-693.
OpenResolved(s, org) ==
  IF org = "caller" THEN [s EXCEPT !.obs.ores = "resolved"] ELSE s

\* (variant: the open goes on although portExists() was false)
OpenRejected_OpensAnyway(s, org) ==
  AdapterClosePort(s, "open", org)
OpenRejected(s, org) ==
  CASE org = "caller" -> [s EXCEPT !.obs.ores = "rejected"]
    [] org = "auto"   -> Emit(s, "error")
    [] org = "loop"   -> ManagerClosePort(s, FALSE, "retryDelay", "none")
    [] OTHER -> s

\* write of the manager and of the adapter: UDP.ts 748-755 (manager),
\* 258-265 (Serial), 144-161 (UDP), index.ts 356-363 (TCP).  Without a
\* callback the manager's own callback emits `error` (UDP.ts 753).
\* (variant: write only tests that a handle exists)
ManagerWrite_NoOpenCheck(s, cbGiven) ==
  LET reject == s.port = NoH
      s1 == [s EXCEPT !.obs.wr = [called |-> TRUE, ret |-> ~reject, err |-> reject,
                                  sent |-> ~reject, to |-> {}]]
  IN IF reject /\ ~cbGiven THEN Emit(s1, "error") ELSE s1
\* The sends of UDP.write (UDP.ts 150-159): to every peer of the registry for
\* which a port is known, options.sendPort first.
SendsTo(s) ==
  { [ip |-> s.clients[i].ip,
     port |-> IF sendPort # NoPort THEN sendPort ELSE s.clients[i].port] :
      i \in {j \in 1..Len(s.clients) : sendPort # NoPort \/ s.clients[j].port # NoPort} }
\* obs.wr: write was called, what it returned, whether its callback was
\* called with an error before it returned, whether data went to the
\* transport, and (UDP) to which peers.
ManagerWrite(s, cbGiven) ==
  LET reject ==
        \/ s.port = NoH
        \/ ~isOpen(s)
        \/ IF kind = "udp" THEN Len(s.clients) = 0 ELSE ~writable(s)
      to == IF kind = "udp" /\ ~reject THEN SendsTo(s) ELSE {}
      s1 == [s EXCEPT !.obs.wr = [called |-> TRUE, ret |-> ~reject, err |-> reject,
                                  sent |-> ~reject /\ (kind = "udp" => to # {}),
                                  to |-> to]]
  IN IF reject /\ ~cbGiven THEN Emit(s1, "error") ELSE s1

\* pipe of the adapter: UDP.ts 281-284 (Serial: the SerialPort itself is the
\* stream), 169-172 (UDP) and index.ts 367-370 (TCP): the adapter's
\* PassThrough.  Readable.pipe adds the destination once more on every call.
\* Guarded by its callers: without a handle it throws.
LastOf(seq) == IF Len(seq) <= MaxAtt THEN seq ELSE SubSeq(seq, Len(seq) - MaxAtt + 1, Len(seq))
AdapterPipe(s, d) == [s EXCEPT !.att = LastOf(Append(@, d))]

\* updatePipes: UDP.ts 761-765.  Readable.pipe returns its destination.
RECURSIVE PipeAll(_, _)
PipeAll(s, i) ==
  IF i > Len(s.pipes) THEN s
  ELSE PipeAll([AdapterPipe(s, s.pipes[i].destination)
                  EXCEPT !.pipes[i].returnPipe = s.pipes[i].destination], i + 1)
updatePipes(s) ==
  IF s.pipes = << >> THEN s
  ELSE IF s.port = NoH THEN [s EXCEPT !.obs.threw = TRUE]
  ELSE PipeAll(s, 1)

\* pipe of the manager: UDP.ts 767-771.  The adapter's pipe runs before the
\* push: when it throws nothing is recorded.  obs.pret: what pipe returned.
ManagerPipe(s, d) ==
  IF s.port = NoH THEN [s EXCEPT !.obs.threw = TRUE]
  ELSE [AdapterPipe(s, d) EXCEPT !.pipes = Append(@, [destination |-> d, returnPipe |-> d]),
                                 !.obs.pret = d]

\* openCb: UDP.ts 670-676.  A throw of updatePipes ends the handler.
\* obs.openShut: portOpen() was false when `open` was emitted.
openCb(s) ==
  LET s1 == updatePipes(Emit([s EXCEPT !.obs.openShut = @ \/ ~portOpen(s)], "open"))
  IN IF sendWhenOpened /\ ~s1.obs.threw THEN ManagerWrite(s1, FALSE) ELSE s1

\* closeCb up to its first await: UDP.ts 678-680.
closeCb(s) == ManagerClosePort(Emit(s, "close"), FALSE, "delay", "none")

\* errorCb: UDP.ts 699-707.
errorCb(s) ==
  LET s1 == Emit(s, "error")
  IN IF isOpen(s1) THEN ManagerClosePort(s1, FALSE, "none", "none") ELSE closeCb(s1)

\* dataCb: UDP.ts 709-717.
\* (variant: a running timer is not restarted by data)
dataCb_KeepsOldTimer(s) ==
  LET s1 == Emit(s, "data")
  IN IF closeOnNoData /\ s.timer < 0 THEN [s1 EXCEPT !.timer = DisconnectTicks] ELSE s1
dataCb(s) ==
  LET s1 == Emit(s, "data")
  IN IF closeOnNoData THEN [s1 EXCEPT !.timer = DisconnectTicks] ELSE s1

\* openPort of the manager up to its first await: UDP.ts 662-667.
\* arg: "undef", "true" or "false".
\* (variant: openPort does not look at portOpen())
ManagerOpenPort_AlwaysReopens(s, arg, org) ==
  LET s1 == IF arg = "undef" THEN s ELSE [s EXCEPT !.keepOpen = (arg = "true")]
  IN IF kind = "serial" THEN AddTask(s1, Wait("exists", NoH, "none", org))
     ELSE Enq(s1, Wait("existsTrue", NoH, "none", org))
ManagerOpenPort(s, arg, org) ==
  LET s1 == IF arg = "undef" THEN s ELSE [s EXCEPT !.keepOpen = (arg = "true")]
  IN IF portOpen(s1) THEN Enq(s1, Wait("openResolved", NoH, "none", org))
     \* Serial.portExists awaits SerialPort.list(); UDP and TCP resolve at once
     ELSE IF kind = "serial" THEN AddTask(s1, Wait("exists", NoH, "none", org))
     ELSE Enq(s1, Wait("existsTrue", NoH, "none", org))

\* openPort after portExists() gave true: UDP.ts 720-721.
ExistsTrue(s, org) == ManagerClosePort(s, FALSE, "open", org)

\* tryIt: UDP.ts 684-696.
\* (variant: the retry does not look at keepOpen)
tryIt_IgnoresKeepOpen(s) == ManagerOpenPort(s, "undef", "loop")
tryIt(s) == IF s.keepOpen THEN ManagerOpenPort(s, "undef", "loop") ELSE s

FreeSlots(s) == {h \in Handles : s.hs[h].st = "free"}
NewH(s) == CHOOSE h \in FreeSlots(s) : \A g \in FreeSlots(s) : h <= g

\* `self.port = new ...` (UDP.ts 83, 226, index.ts 307) replaces a handle that
\* is opening or open: obs.overwrote.
Overwrites(s) == s.port # NoH /\ s.hs[s.port].st \in {"opening", "open"}

\* TCP.openPort from `new net.Socket`: index.ts 307-327.
TcpOpen2(s, org) ==
  IF FreeSlots(s) = {} THEN [s EXCEPT !.hist.ovf = TRUE]
  ELSE LET h == NewH(s)
           id == FreshId(s)
           s1 == [s EXCEPT !.hs[h] = [st |-> "opening", lst |-> TRUE, ending |-> FALSE],
                           !.port = h, !.ctimer = id,
                           !.obs.overwrote = @ \/ Overwrites(s)]
       IN Enq(AddTask(s1, T("connTimer", NoH, "none", "none", id, TRUE)),
              Wait("openResolved", NoH, "none", org))

\* openPort of the adapter: UDP.ts 223-237 (Serial), 80-120 (UDP),
\* index.ts 302-306 (TCP).
AdapterOpenPort(s, org) ==
  IF kind = "tcp"
  THEN IF s.port # NoH THEN AdapterClosePort(s, "tcpOpen", org) ELSE TcpOpen2(s, org)
  ELSE IF FreeSlots(s) = {} THEN [s EXCEPT !.hist.ovf = TRUE]
  ELSE LET h == NewH(s)
       \* a new SerialPort is a new raw stream; the PassThrough of the UDP
       \* adapter stays
       IN AddTask([s EXCEPT !.hs[h] = [st |-> "opening", lst |-> TRUE, ending |-> FALSE],
                            !.port = h,
                            !.obs.overwrote = @ \/ Overwrites(s),
                            !.att = IF kind = "serial" THEN << >> ELSE @],
                  Wait("openWait", h, "none", org))

\* What runs when an awaited adapter closePort() has resolved.
Then(s, th, org) ==
  CASE th = "caller"     -> [s EXCEPT !.obs.cres = "resolved",
                                      !.hist.ploop = IF @ = "called" THEN "resolved" ELSE @]
    [] th = "open"       -> AdapterOpenPort(s, org)
    [] th = "tcpOpen"    -> TcpOpen2(s, org)
    [] th = "delay"      -> AddTask(s, Wait("delay", NoH, "none", "none"))
    [] th = "retryDelay" -> AddTask(s, Wait("retryDelay", NoH, "none", "none"))
    [] OTHER -> s

\* The `close` event of a dgram socket and the callback of its close():
\* UDP.ts 111, 141.
UdpClosed(s, h, th, org) ==
  IF s.hs[h].lst THEN SUDestroy(closeCb(s), th, org)
  ELSE [s EXCEPT !.obs.hung = TRUE]

\* The callback of TCP's port.end(): index.ts 350-353.
EndCb(s, m) ==
  LET mine(t) == t.c = "endWait" /\ t.id = m.id /\ t.h = m.h
      found == SelectSeq(s.tasks, mine)
  IN IF found = << >> THEN s
     ELSE TcpDestroy(ClearSlot([s EXCEPT !.tasks = SelectSeq(@, LAMBDA t : ~mine(t))]),
                     found[1].th, found[1].org)

RunMicro(s, m) ==
  CASE m.c = "then"         -> Then(s, m.th, m.org)
    [] m.c = "existsTrue"   -> ExistsTrue(s, m.org)
    [] m.c = "openResolved" -> OpenResolved(s, m.org)
    [] m.c = "openRejected" -> OpenRejected(s, m.org)
    [] m.c = "udpClosed"    -> UdpClosed(s, m.h, m.th, m.org)
    [] m.c = "endCb"        -> EndCb(s, m)
    [] m.c = "errorCb"      -> errorCb(s)
    [] OTHER -> s

RECURSIVE Drain(_)
Drain(s) ==
  IF s.q = << >> THEN s
  ELSE Drain(RunMicro([s EXCEPT !.q = Tail(@)], Head(s.q)))

\* A handle nothing refers to any more and that can call nothing back leaves
\* the model; `leaked` records that its OS resource was never closed.
Dead(s, h) ==
  /\ s.hs[h].st # "free"
  /\ h # s.port
  /\ \A i \in 1..Len(s.tasks) : s.tasks[i].h # h
  /\ IF kind = "tcp" THEN s.hs[h].st = "closed"
     ELSE ~s.hs[h].lst \/ s.hs[h].st \in {"closed", "failed"}

\* The handles that remain are renumbered from 1 in their order (a handle has
\* no identity beyond the references to it).
Reap(s) ==
  LET dead == {h \in Handles : Dead(s, h)}
      leak == \E h \in dead : s.hs[h].st \in {"opening", "open"}
                              \/ (kind = "udp" /\ s.hs[h].st = "failed")
      live == {h \in Handles : s.hs[h].st # "free" /\ h \notin dead}
      new(h) == IF h \in live THEN Cardinality({g \in live : g <= h}) ELSE NoH
      old(n) == CHOOSE h \in live : new(h) = n
  IN [s EXCEPT !.hs = [n \in Handles |-> IF n <= Cardinality(live) THEN s.hs[old(n)]
                                         ELSE FreeH],
               !.port = new(@),
               !.tasks = [i \in 1..Len(@) |-> [@[i] EXCEPT !.h = new(@)]],
               !.obs.leaked = @ \/ leak]

Commit(s) ==
  \E r \in {Reap(Drain(s))} :
     /\ keepOpen' = r.keepOpen /\ pipes' = r.pipes /\ att' = r.att
     /\ timer' = r.timer /\ port' = r.port
     /\ connected' = r.connected /\ clients' = r.clients /\ ctimer' = r.ctimer
     /\ hs' = r.hs /\ tasks' = r.tasks /\ ev' = r.ev /\ obs' = r.obs
     /\ hist' = r.hist /\ exitL' = r.exitL
     /\ UNCHANGED << kind, closeOnNoData, ipSet, sendPort, sendWhenOpened >>

\* ------------------------------------------------------------------ actions
Running == ~hist.ovf
Env(c, f) ==
  /\ calls' = calls + c /\ faults' = faults + f /\ UNCHANGED << devExists, silences >>
TaskIs(i, c) == i \in 1..Len(tasks) /\ tasks[i].c = c
Without(i) == [Cur EXCEPT !.tasks = RemoveAt(@, i)]

\* The constructor's setTimeout(..., 0): UDP.ts 625-636.
AutoOpen ==
  \E i \in 1..Len(tasks) :
    /\ Running /\ TaskIs(i, "autoOpen")
    /\ Commit(ManagerOpenPort(Without(i), "undef", "auto"))
    /\ Env(0, 0)

\* An open that the caller or the constructor asked for is still under way.
Opening(ts) ==
  \/ \E i \in 1..Len(ts) : ts[i].c = "autoOpen" \/ ts[i].org \in {"caller", "auto"}
  \/ \E h \in Handles : hs[h].st = "opening"

\* A reconnect loop (closeCb, UDP.ts 678-697) is under way.
Reconnecting(ts) ==
  \E i \in 1..Len(ts) : \/ ts[i].c \in {"delay", "retryDelay"}
                        \/ ts[i].th \in {"delay", "retryDelay"}
                        \/ ts[i].org = "loop"

\* Something is under way: a continuation waits, or a handle is on its way
\* to open or to closed.
Busy ==
  \/ tasks # << >>
  \/ \E h \in Handles : hs[h].st \in {"opening", "closing", "destroyed"}

\* The caller calls openPort(keepOpen?): UDP.ts 662.
\* hist.call: the caller's last call ("closeOpen": closePort() of a manager
\* that was open with nothing under way; "reopen": openPort(true) after a
\* closePort(true), with nothing under way; "closeAgain": a closePort() of the
\* manager that this reopened, which the caller may add to its MaxCalls
\* calls; "openPerm": openPort() without argument after a closePort(true), with
\* nothing under way); hist.perm: closePort(true) was called
\* and openPort was not called since ("busy": while an open was under way);
\* hist.ploop: that closePort(true) was called while a reconnect loop was
\* under way, with no open of the caller or the constructor and no other
\* closePort of the caller pending ("called"), and has resolved ("resolved").
CallOpenOf(a) ==
  /\ Running /\ calls < MaxCalls
  /\ Commit(ManagerOpenPort([Cur EXCEPT !.hist.perm = "no", !.hist.ploop = "no",
                                         !.hist.call = IF hist.perm = "no" \/ Busy THEN "open"
                                                       ELSE IF a = "true" THEN "reopen"
                                                       ELSE IF a = "undef" THEN "openPerm"
                                                       ELSE "open"],
                             a, "caller"))
  /\ Env(1, 0)

CallOpen == \E a \in {"undef", "true", "false"} : CallOpenOf(a)

\* The caller calls closePort(keepClosed): UDP.ts 737.
CallCloseOf(k) ==
  /\ Running
  /\ \/ calls < MaxCalls
     \/ ~k /\ hist.call = "reopen" /\ portOpen(Cur) /\ ~Busy
  /\ Commit(ManagerClosePort(
              [Cur EXCEPT !.obs.cres = "pending", !.hist.shut = TRUE,
                          !.hist.ploop = IF ~k THEN @
                                         ELSE IF /\ Reconnecting(tasks) /\ ~Opening(tasks)
                                                 /\ \A i \in 1..Len(tasks) : tasks[i].th # "caller"
                                              THEN "called" ELSE "no",
                          !.hist.perm = IF ~k THEN @ ELSE IF Opening(tasks) THEN "busy"
                                        ELSE "yes",
                          !.hist.call = IF k THEN "closeT"
                                        ELSE IF ~(portOpen(Cur) /\ ~Busy) THEN "close"
                                        ELSE IF hist.call = "reopen" THEN "closeAgain"
                                        ELSE "closeOpen"],
              k, "caller", "none"))
  /\ Env(1, 0)

CallClose == \E k \in BOOLEAN : CallCloseOf(k)

\* The caller calls write(data, cb?): UDP.ts 748.
CallWriteOf(cb) ==
  /\ Running /\ calls < MaxCalls
  /\ Commit(ManagerWrite([Cur EXCEPT !.hist.call = "write"], cb))
  /\ Env(1, 0)

CallWrite == \E cb \in BOOLEAN : CallWriteOf(cb)

\* The caller calls pipe(destination): UDP.ts 767.
CallPipeOf(d) ==
  /\ Running /\ calls < MaxCalls
  /\ Commit(ManagerPipe([Cur EXCEPT !.hist.call = "pipe"], d))
  /\ Env(1, 0)

CallPipe == \E d \in Sinks : CallPipeOf(d)

\* SerialPort.list() completes inside Serial.portExists: UDP.ts 202-219.
ExistsDoneAt(i) ==
  /\ Running /\ TaskIs(i, "exists")
  /\ Commit(Enq(Without(i),
                Wait(IF devExists THEN "existsTrue" ELSE "openRejected",
                     NoH, "none", tasks[i].org)))
  /\ Env(0, 0)

ExistsDone == \E i \in 1..Len(tasks) : ExistsDoneAt(i)

\* The handle becomes ready.  SerialPort: `open` is emitted, then the
\* callback of open() runs (UDP.ts 228, 232-235).  dgram: `listening` calls
\* the once-listener and then the bind callback (UDP.ts 84, 114-118).
\* net.Socket: `ready` (index.ts 308-311).
\* (variant: `ready` leaves the connect timer running)
OpenOkOf_KeepsConnTimer(s, h) ==
  IF kind = "tcp" THEN openCb([s EXCEPT !.hs[h].st = "open"])
  ELSE LET w == SelectSeq(s.tasks, LAMBDA t : t.c = "openWait" /\ t.h = h)
           s1 == [s EXCEPT !.hs[h].st = "open",
                           !.tasks = SelectSeq(@, LAMBDA t : ~(t.c = "openWait" /\ t.h = h)),
                           !.q = @ \o [i \in 1..Len(w) |-> [w[i] EXCEPT !.c = "openResolved"]]]
       IN IF kind = "udp" THEN [openCb(s1) EXCEPT !.connected = TRUE]
          ELSE IF s.hs[h].lst THEN openCb(s1) ELSE s1
OpenOkOf(s, h) ==
  LET mine(t) == t.c = "openWait" /\ t.h = h
      w == SelectSeq(s.tasks, mine)
      s1 == [s EXCEPT !.hs[h].st = "open", !.tasks = SelectSeq(@, LAMBDA t : ~mine(t))]
      done(x) == [x EXCEPT !.q = @ \o [i \in 1..Len(w) |-> [w[i] EXCEPT !.c = "openResolved"]]]
  IN CASE kind = "serial" -> done(IF s.hs[h].lst THEN openCb(s1) ELSE s1)
       [] kind = "udp"    -> done([openCb(s1) EXCEPT !.connected = TRUE])
       [] OTHER           -> openCb(ClearSlot(s1))

OpenOkAt(h) ==
  /\ Running /\ hs[h].st = "opening"
  /\ kind = "udp" => hs[h].lst
  /\ Commit(OpenOkOf(Cur, h))
  /\ Env(0, 0)

OpenOk == \E h \in Handles : OpenOkAt(h)

\* The handle fails to become ready.  SerialPort: the callback of open()
\* gets the error (UDP.ts 233).  dgram: `error` is emitted and the bind
\* callback never runs (UDP.ts 86).  net.Socket: the socket is destroyed,
\* pending end() callbacks run, `error` is emitted (index.ts 313).
OpenFailOf(s, h) ==
  LET mine(t) == t.c = "openWait" /\ t.h = h
      w == SelectSeq(s.tasks, mine)
      s1 == [s EXCEPT !.tasks = SelectSeq(@, LAMBDA t : ~mine(t))]
      pend == SelectSeq(s.tasks, LAMBDA t : t.c = "endWait" /\ t.h = h)
  IN CASE kind = "serial" ->
            [s1 EXCEPT !.hs[h].st = "failed",
                       !.q = @ \o [i \in 1..Len(w) |-> [w[i] EXCEPT !.c = "openRejected"]]]
       [] kind = "udp" ->
            errorCb([s1 EXCEPT !.hs[h].st = "failed", !.obs.hung = @ \/ w # << >>])
       [] OTHER ->
            [s EXCEPT !.hs[h].st = "destroyed",
                      !.q = @ \o [i \in 1..Len(pend) |-> [pend[i] EXCEPT !.c = "endCb"]]
                                \o << Wait("errorCb", h, "none", "none") >>]

OpenFailAt(h) ==
  /\ Running /\ faults < MaxFaults /\ hs[h].st = "opening"
  /\ kind = "udp" => hs[h].lst
  /\ Commit(OpenFailOf([Cur EXCEPT !.hist.fault = "openFail"], h))
  /\ Env(0, 1)

OpenFail == \E h \in Handles : OpenFailAt(h)

\* The link drops without the program asking.  SerialPort closes itself
\* (isOpen turns false) and emits `close` once the close is done.  net.Socket
\* is destroyed (with `error` first when err), runs pending end() callbacks
\* and emits `close` later.  A dgram socket never closes by itself.
DropOf(s, h, err) ==
  LET pend == SelectSeq(s.tasks, LAMBDA t : t.c = "endWait" /\ t.h = h)
  IN IF kind = "serial" THEN [s EXCEPT !.hs[h].st = "closing"]
     ELSE [s EXCEPT !.hs[h].st = "destroyed",
                    !.q = @ \o [i \in 1..Len(pend) |-> [pend[i] EXCEPT !.c = "endCb"]]
                              \o (IF err THEN << Wait("errorCb", h, "none", "none") >>
                                  ELSE << >>)]

Drop ==
  \E h \in Handles, err \in BOOLEAN :
    /\ Running /\ faults < MaxFaults
    /\ kind # "udp" /\ hs[h].st = "open"
    /\ kind = "serial" => ~err
    /\ Commit(DropOf([Cur EXCEPT !.hist.fault = IF err THEN "reset" ELSE "drop"], h, err))
    /\ Env(0, 1)

\* The handle's `close` event.  SerialPort: the once-listener (UDP.ts 227),
\* then the callback of close() (UDP.ts 254).  net.Socket: index.ts 312.
HandleClosedOf(s, h) ==
  LET mine(t) == t.c = "closeWait" /\ t.h = h
      w == SelectSeq(s.tasks, mine)
      s1 == [s EXCEPT !.hs[h].st = "closed", !.tasks = SelectSeq(@, LAMBDA t : ~mine(t))]
      s2 == IF kind = "tcp" \/ s.hs[h].lst THEN closeCb(s1) ELSE s1
  IN IF w = << >> THEN s2 ELSE SUDestroy(s2, w[1].th, w[1].org)

HandleClosedAt(h) ==
  /\ Running
  /\ hs[h].st = IF kind = "tcp" THEN "destroyed" ELSE "closing"
  /\ Commit(HandleClosedOf(Cur, h))
  /\ Env(0, 0)

HandleClosed == \E h \in Handles : HandleClosedAt(h)

\* An `error` event of a handle that stays open: UDP.ts 86, 229.
AdapterError ==
  \E h \in Handles :
    /\ Running /\ faults < MaxFaults
    /\ kind # "tcp" /\ hs[h].st = "open" /\ hs[h].lst
    /\ Commit(errorCb([Cur EXCEPT !.hist.fault = "error"]))
    /\ Env(0, 1)

\* The `message` listener of the UDP adapter, for a datagram from address a
\* and source port p: UDP.ts 87-110.  obs.dropped: the datagram was ignored.
\* (variant: a datagram of an unknown sender is passed on, not remembered)
UdpMessage_AcceptsAll(s, a, p) ==
  LET hits == {i \in 1..Len(s.clients) : s.clients[i].ip = a}
      s2 == IF ~ipSet /\ hits = {}
            THEN [s EXCEPT !.clients = Append(@, [ip |-> a, port |-> p])] ELSE s
  IN dataCb(s2)
\* (variant: every datagram without a configured peer adds its sender)
UdpMessage_AlwaysAppends(s, a, p) ==
  IF ipSet THEN [s EXCEPT !.obs.dropped = TRUE]
  ELSE dataCb([s EXCEPT !.clients = Append(@, [ip |-> a, port |-> p])])
UdpMessage(s, a, p) ==
  LET hits == {i \in 1..Len(s.clients) : s.clients[i].ip = a}
      first == CHOOSE i \in hits : \A j \in hits : i <= j
      s1 == IF hits # {} /\ s.clients[first].port = NoPort
            THEN [s EXCEPT !.clients[first].port = p] ELSE s
      s2 == IF ~ipSet /\ hits = {}
            THEN [s1 EXCEPT !.clients = Append(@, [ip |-> a, port |-> p])] ELSE s1
  IN IF hits # {} \/ ~ipSet THEN dataCb(s2) ELSE [s2 EXCEPT !.obs.dropped = TRUE]

\* Inbound data: UDP.ts 230 (Serial), 87-110 (UDP), index.ts 314-317 (TCP).
DataOf(s, a, p) == IF kind = "udp" THEN UdpMessage(s, a, p) ELSE dataCb(s)

DataFrom(a, p) ==
  \E h \in Handles :
    /\ Running /\ hs[h].st = "open" /\ hs[h].lst
    /\ kind # "udp" => (a = 1 /\ p = 1)
    /\ Commit(DataOf(Cur, a, p))
    /\ Env(0, 0)

Data == \E a \in Addrs, p \in Ports : DataFrom(a, p)

\* The callbacks of end() when the socket has finished writing.
FinishEnd ==
  \E h \in Handles :
    LET pend == SelectSeq(tasks, LAMBDA t : t.c = "endWait" /\ t.h = h)
    IN /\ Running /\ kind = "tcp" /\ hs[h].st = "open" /\ pend # << >>
       /\ Commit([Cur EXCEPT !.q = [i \in 1..Len(pend) |-> [pend[i] EXCEPT !.c = "endCb"]]])
       /\ Env(0, 0)

\* The 5000 ms timer of TCP.closePort: index.ts 345-347.
EndTimer ==
  \E i \in 1..Len(tasks) :
    /\ Running /\ TaskIs(i, "endWait") /\ tasks[i].tm
    /\ Commit(TcpDestroy([Cur EXCEPT !.tasks[i].tm = FALSE, !.tasks[i].th = "none",
                                     !.ctimer = IF @ = tasks[i].id THEN 0 ELSE @],
                         tasks[i].th, tasks[i].org))
    /\ Env(0, 0)

\* The 5000 ms connect timer of TCP.openPort fires before the socket is
\* ready: index.ts 320-323.
ConnTimer ==
  \E i \in 1..Len(tasks) :
    /\ Running /\ faults < MaxFaults /\ TaskIs(i, "connTimer")
    /\ Commit(errorCb(AdapterClosePort(
                [Without(i) EXCEPT !.ctimer = IF @ = tasks[i].id THEN 0 ELSE @,
                                   !.hist.fault = "timeout"],
                "none", "none")))
    /\ Env(0, 1)

\* The 1000 ms settling delay of destroy: UDP.ts 134, 248.
Settle ==
  \E i \in 1..Len(tasks) :
    /\ Running /\ TaskIs(i, "settle")
    /\ Commit(Enq(Without(i), Wait("then", NoH, tasks[i].th, tasks[i].org)))
    /\ Env(0, 0)

\* reconnectTimeoutMS / connectionAttemptTimeoutMS elapsed: UDP.ts 683, 691.
DelayAt(i) ==
  /\ Running /\ (TaskIs(i, "delay") \/ TaskIs(i, "retryDelay"))
  /\ Commit(tryIt(Without(i)))
  /\ Env(0, 0)

Delay == \E i \in 1..Len(tasks) : DelayAt(i)

\* One tick of the clock without data while the disconnect timer is armed.
\* hist.silent: the line stayed silent for the whole of disconnectTimeoutMS.
Tick ==
  /\ Running /\ timer > 0
  /\ timer = 1 => silences < MaxSilences
  /\ Commit([Cur EXCEPT !.timer = @ - 1,
                        !.hist.sinceData = IF @ < DisconnectTicks THEN @ + 1 ELSE @,
                        !.hist.silent = @ \/ timer = 1])
  /\ calls' = calls /\ faults' = faults /\ UNCHANGED devExists
  /\ silences' = silences + (IF timer = 1 THEN 1 ELSE 0)

\* The disconnect timer fires: UDP.ts 713-715.
TimerFire ==
  /\ Running /\ timer = 0
  /\ Commit(ManagerClosePort([Cur EXCEPT !.timer = -1, !.hist.sinceData = 0],
                             FALSE, "none", "none"))
  /\ Env(0, 0)

\* The serial device appears or disappears.
DevFlip ==
  /\ Running /\ kind = "serial" /\ faults < MaxFaults
  /\ Commit([Cur EXCEPT !.hist.fault = "flip"])
  /\ devExists' = ~devExists
  /\ calls' = calls /\ faults' = faults + 1 /\ UNCHANGED silences

\* The serial device is unplugged while its port is open: the port closes
\* itself as in Drop and SerialPort.list() no longer shows the device.
Unplug ==
  \E h \in Handles :
    /\ Running /\ faults < MaxFaults
    /\ kind = "serial" /\ hs[h].st = "open" /\ devExists
    /\ Commit(DropOf([Cur EXCEPT !.hist.fault = "unplug"], h, FALSE))
    /\ devExists' = FALSE
    /\ calls' = calls /\ faults' = faults + 1 /\ UNCHANGED silences

\* The device that was unplugged is plugged in again.
Replug ==
  /\ Running /\ kind = "serial" /\ ~devExists /\ hist.fault = "unplug"
  /\ Commit(Cur)
  /\ devExists' = TRUE
  /\ UNCHANGED << calls, faults, silences >>

\* ------------------------------------------------------------ specification
\* The state after the constructor (UDP.ts 613-640): no handle, the
\* auto-open pending when autoOpen is set.
Constructed ==
  /\ kind \in Kinds
  /\ keepOpen \in BOOLEAN
  /\ pipes = << >> /\ att = << >>
  /\ ipSet \in (IF kind = "udp" THEN BOOLEAN ELSE {FALSE})
  /\ devExists \in (IF kind = "serial" THEN BOOLEAN ELSE {TRUE})
  /\ sendPort \in (IF kind = "udp" THEN {NoPort, 1} ELSE {NoPort})
  \* UDP.constructor (UDP.ts 49-62): the configured peer, with options.sendPort
  /\ clients = IF ipSet THEN << [ip |-> 1, port |-> sendPort] >> ELSE << >>
  /\ timer = -1 /\ port = NoH /\ connected = FALSE /\ ctimer = 0
  /\ hs = [h \in Handles |-> FreeH]
  /\ tasks \in { << >>, << Wait("autoOpen", NoH, "none", "auto") >> }
  /\ ev = << >> /\ obs = NoObs
  /\ hist = [ovf |-> FALSE, perm |-> "no", ploop |-> "no", shut |-> FALSE, call |-> "none", fault |-> "none",
             silent |-> FALSE, no |-> 0, nc |-> 0, sinceData |-> 0]
  /\ calls = 0 /\ faults = 0 /\ silences = 0

\* Spec: every setting of closeOnNoData, for a caller that sets no
\* sendWhenOpened and pipes to nothing; the manager is the only one of the
\* process (process.once, UDP.ts 638-639).
Init ==
  Constructed /\ closeOnNoData \in BOOLEAN /\ sendWhenOpened = FALSE /\ exitL = << Me >>

Next ==
  \/ AutoOpen \/ CallOpen \/ CallClose \/ CallWrite
  \/ ExistsDone \/ OpenOk \/ OpenFail \/ Drop \/ HandleClosed \/ AdapterError
  \/ Data \/ FinishEnd \/ EndTimer \/ ConnTimer \/ Settle \/ Delay
  \/ Tick \/ TimerFire \/ DevFlip \/ Unplug \/ Replug

Spec == Init /\ [][Next]_vars

\* StreamSpec: the caller may set sendWhenOpened and call pipe; closeOnNoData
\* is off, so the disconnect timer is never armed.
StreamInit ==
  Constructed /\ closeOnNoData = FALSE /\ sendWhenOpened \in BOOLEAN /\ exitL = << Me >>

StreamNext ==
  \/ AutoOpen \/ CallOpen \/ CallClose \/ CallWrite \/ CallPipe
  \/ ExistsDone \/ OpenOk \/ OpenFail \/ Drop \/ HandleClosed \/ AdapterError
  \/ Data \/ FinishEnd \/ EndTimer \/ ConnTimer \/ Settle \/ Delay
  \/ DevFlip \/ Unplug \/ Replug

StreamSpec == StreamInit /\ [][StreamNext]_vars

\* ProcSpec: the process holds a second manager, constructed before or after
\* this one, on which nothing is called; closeOnNoData is off and the caller
\* sets no sendWhenOpened and pipes to nothing.
ProcInit ==
  /\ Constructed /\ closeOnNoData = FALSE /\ sendWhenOpened = FALSE
  /\ exitL \in { << Me, Other >>, << Other, Me >> }

ProcNext ==
  \/ AutoOpen \/ CallOpen \/ CallClose \/ CallWrite
  \/ ExistsDone \/ OpenOk \/ OpenFail \/ Drop \/ HandleClosed \/ AdapterError
  \/ Data \/ FinishEnd \/ EndTimer \/ ConnTimer \/ Settle \/ Delay
  \/ DevFlip \/ Unplug \/ Replug

ProcSpec == ProcInit /\ [][ProcNext]_vars

\* ------------------------------------------------------------------ claims
Emitted(e) == \E i \in 1..Len(ev) : ev[i] = e

\* The program state the caller can tell apart.
Conn == << port, hs, tasks, connected, timer, ctimer, clients >>

\* C1: a manager with keepOpen = true that was opened and is left alone by
\* the caller emits one `close` event, not more, for the one unsolicited
\* close that its adapter reports.
C1_OneClosePerDisconnect ==
  (keepOpen /\ calls = 0 /\ faults = 1 /\ hist.fault \in {"drop", "reset"})
    => hist.nc <= 1

\* C2: once closePort(true) was called (no open of the caller under way),
\* no `open` event is emitted until the caller calls openPort again.
C2_NoOpenAfterPermanentClose == ~(hist.perm = "yes" /\ Emitted("open"))

\* Nothing is left to happen unless the caller or the environment acts: no
\* continuation waits, no timer is armed and no handle is on its way.
Idle == ~Busy /\ timer = -1

\* C3: with keepOpen = true, after closePort() of a manager that was open
\* with nothing under way, with no later call of the caller, no disconnect
\* or failure and the device present, the manager does not come to rest
\* closed: when nothing is left to happen the port is open again.
C3_CloseThenReopen ==
  (/\ keepOpen /\ devExists /\ Idle
   /\ hist.call \in {"closeOpen", "closeAgain"}
   /\ hist.fault = "none") => portOpen(Cur)

\* C4: openPort(true) after closePort(true) sets keepOpen and reopens the
\* port, and after a later closePort() or unsolicited close the manager
\* does not come to rest closed: when nothing is left to happen keepOpen is
\* true and the port is open.
C4_ReopenRestoresKeepOpen ==
  (/\ devExists /\ Idle
   /\ hist.call \in {"reopen", "closeAgain"}
   /\ hist.fault \in {"none", "drop", "reset"})
    => (keepOpen /\ portOpen(Cur))

\* C5: when SerialPort.list() does not show the device to an openPort of a
\* manager that holds no handle, the openPort of the caller is rejected, no
\* handle is created and neither `open` nor `close` is emitted.
C5_MissingDeviceRejects ==
  [][\A i \in 1..Len(tasks) :
       (ExistsDoneAt(i) /\ ~devExists /\ port = NoH) =>
          /\ port' = NoH /\ hs' = hs
          /\ ~Emitted("open")' /\ ~Emitted("close")'
          /\ tasks[i].org = "caller" => obs'.ores = "rejected"]_vars

C5_Witness ==
  obs.ores = "rejected" /\ ~devExists /\ port = NoH /\ ev = << >>

\* C6: when the first open of a manager fails inside the adapter, the
\* manager starts no reconnect loop.
C6_NoRetryAfterFirstFailure ==
  [][\A h \in Handles :
       (OpenFailAt(h) /\ hist.no = 0 /\ hist.nc = 0 /\ ~Reconnecting(tasks)) =>
          ~Reconnecting(tasks')]_vars

\* C7: with closeOnNoData the disconnect timer is armed when `open` is
\* emitted.
C7_TimerArmedAtOpen == (closeOnNoData /\ Emitted("open")) => timer >= 0

\* C8: with closeOnNoData every `data` event restarts the disconnect timer:
\* the timer always shows the ticks left of disconnectTimeoutMS since the
\* last `data` event, and it fires only after that many ticks without one.
C8_TimerFollowsData ==
  [][/\ (closeOnNoData /\ timer' >= 0) => timer' = DisconnectTicks - hist'.sinceData
     /\ TimerFire => hist.sinceData = DisconnectTicks]_vars

C8_Witness ==
  closeOnNoData /\ Emitted("data") /\ timer = DisconnectTicks /\ portOpen(Cur)

\* C9: closePort on a manager that is not open emits no event and leaves
\* it not open; when the adapter holds no handle it resolves at once and
\* changes nothing but keepOpen (with keepClosed), however often it is
\* repeated.
C9_CloseWhenClosed ==
  [][\A k \in BOOLEAN :
       /\ (CallCloseOf(k) /\ ~portOpen(Cur)) =>
             (ev' = << >> /\ ~portOpen(Cur)')
       /\ (CallCloseOf(k) /\ port = NoH) =>
             /\ obs'.cres = "resolved"
             /\ Conn' = Conn
             /\ keepOpen' = (keepOpen /\ ~k)]_vars

C9_Witness ==
  obs.cres = "resolved" /\ port = NoH /\ calls = MaxCalls /\ hist.call = "close"

C11_OpenWhenOpen ==
  [][\A a \in {"undef", "true", "false"} :
       (CallOpenOf(a) /\ portOpen(Cur)) =>
          /\ obs'.ores = "resolved" /\ ev' = << >>
          /\ Conn' = Conn
          /\ keepOpen' = IF a = "undef" THEN keepOpen ELSE a = "true"]_vars

C11_Witness ==
  /\ obs.ores = "resolved" /\ ev = << >> /\ hist.call = "open" /\ hist.no = 1
  /\ portOpen(Cur) /\ hs[port].st = "open" /\ ~keepOpen /\ tasks = << >>

\* The addresses of the registry.
Ips(cl) == {cl[i].ip : i \in 1..Len(cl)}

\* C12: UDP.  With a configured peer a datagram of another address is
\* ignored: no `data` event, the registry and the disconnect timer stay as
\* they are.  Without a configured peer a datagram of any address is passed
\* on as `data` and a write that follows would send to its sender.
C12_UnknownSenders ==
  [][\A a \in Addrs, p \in Ports :
       (kind = "udp" /\ DataFrom(a, p)) =>
          IF ipSet /\ a \notin Ips(clients)
          THEN /\ ev' = << >> /\ clients' = clients /\ timer' = timer
               /\ hist'.sinceData = hist.sinceData
          ELSE /\ ev' = << "data" >>
               /\ a \in Ips(clients')
               /\ ~ipSet => a \in {x.ip : x \in SendsTo(Cur)'}]_vars

C12_Witness ==
  /\ kind = "udp" /\ ipSet /\ obs.dropped /\ ev = << >> /\ portOpen(Cur)
  /\ closeOnNoData /\ timer = 1

\* C13: UDP without a configured peer.  The registry never holds an address
\* twice; the sender of an accepted datagram is in the registry and stays
\* there while the port stays open, and a write on the open port sends to
\* every address of the registry.
C13_RegistryLearnsOnce ==
  [][(kind = "udp" /\ ~ipSet) =>
       /\ \A i, j \in 1..Len(clients') : clients'[i].ip = clients'[j].ip => i = j
       /\ \A a \in Addrs :
            /\ (\E p \in Ports : DataFrom(a, p)) => a \in Ips(clients')
            /\ (a \in Ips(clients) /\ portOpen(Cur) /\ portOpen(Cur)')
                 => a \in Ips(clients')
            /\ (a \in Ips(clients) /\ portOpen(Cur) /\ \E cb \in BOOLEAN : CallWriteOf(cb))
                 => (obs'.wr.ret /\ a \in {x.ip : x \in obs'.wr.to})]_vars

C13_Witness ==
  /\ kind = "udp" /\ ~ipSet /\ Len(clients) = 2 /\ sendPort = NoPort
  /\ obs.wr.ret /\ {x.ip : x \in obs.wr.to} = Addrs

Count(e) == Cardinality({i \in 1..Len(ev) : ev[i] = e})
C16_NoReopenWithoutKeepOpen ==
  [][/\ \A i \in 1..Len(tasks) : (DelayAt(i) /\ ~keepOpen) =>
          /\ ev' = << >> /\ tasks' = RemoveAt(tasks, i)
          /\ hs' = hs /\ port' = port /\ ~keepOpen'
     /\ (/\ ~keepOpen /\ ~keepOpen'
         /\ \/ calls' = 0 /\ hist.nc >= 1
            \/ hist.call = "closeOpen" /\ hist'.call = "closeOpen")
        => ~Emitted("open")']_vars

\* Witness for C16: keepOpen false, the port closed on its own, `close` was
\* emitted, the wait is over and the manager rests closed.
C16_Witness ==
  /\ ~keepOpen /\ calls = 0 /\ hist.fault = "drop" /\ hist.nc = 1
  /\ Idle /\ port = NoH /\ ev = << >>

\* C17: after closePort(true) an openPort() without argument is rejected and
\* does not open the port: it does not resolve, the port is not open and no
\* `open` is emitted until the caller's next call.
C17_PermanentCloseRejectsOpen ==
  hist.call = "openPerm" => (obs.ores # "resolved" /\ ~portOpen(Cur) /\ ~Emitted("open"))

\* C18: whenever `open` is emitted and sendWhenOpened is set, the payload is
\* written in the same step and the adapter accepts it: write returns true,
\* its callback gets no error, no `error` event is emitted, and the data goes
\* to the transport.
C18_SendWhenOpened ==
  (sendWhenOpened /\ Emitted("open")) =>
     /\ obs.wr.called /\ obs.wr.ret /\ ~obs.wr.err /\ obs.wr.sent
     /\ ~Emitted("error")

\* C19: a step that emits `open` attaches every registration again, in the
\* order of registration, to the adapter's current raw stream, after what the
\* stream already had; the list of registrations is unchanged, each
\* returnPipe is what the adapter's pipe returned, and nothing is thrown.
Dests(ps) == [i \in 1..Len(ps) |-> ps[i].destination]
C19_PipesReattached ==
  [][Emitted("open")' =>
       /\ ~obs'.threw
       /\ pipes' = pipes
       /\ att' = LastOf(att \o Dests(pipes))
       /\ \A i \in 1..Len(pipes') : pipes'[i].returnPipe = pipes'[i].destination]_vars

\* C20: a write that is not successful (it returns false) makes the manager
\* reopen the port: the step of the call starts an open (a new handle or a
\* new continuation), unless the port is open after it.
C20_FailedWriteReopens ==
  [][\A cb \in BOOLEAN : (CallWriteOf(cb) /\ ~obs'.wr.ret) =>
        (tasks' # tasks \/ hs' # hs \/ portOpen(Cur)')]_vars

\* C21: at most one reconnect loop is under way at any time.  A loop is, at
\* any moment, one continuation: closeCb waiting for closePort or for its
\* delay, or the openPort that tryIt started.
Loops(ts) ==
  Cardinality({i \in 1..Len(ts) : \/ ts[i].c \in {"delay", "retryDelay"}
                                   \/ ts[i].th \in {"delay", "retryDelay"}
                                   \/ ts[i].org = "loop"})
C21_OneReconnectLoop == Loops(tasks) <= 1

\* C22: closePort(true) called while a reconnect loop is under way (its
\* delay, its retry delay or its openPort): once that call has resolved, and
\* until the caller's next call, no `open` and no `error` is emitted and the
\* port is not open.
C22_PermanentCloseStopsLoop ==
  (hist.ploop = "resolved" /\ hist.call = "closeT") =>
     (~Emitted("open") /\ ~Emitted("error") /\ ~portOpen(Cur))

\* C23: overlapping openPort calls are not interleaved.  In a run without
\* faults at most one handle is opening or open at any time, no handle is
\* abandoned without being closed, and no second `open` is emitted without a
\* `close` in between.
LiveHandles == {h \in Handles : hs[h].st \in {"opening", "open"}}
C23_OpensNotInterleaved ==
  faults = 0 => (Cardinality(LiveHandles) <= 1 /\ ~obs.leaked /\ hist.no <= 1)

\* C24: a closePort call and a `close` event cancel the disconnect timer: no
\* timer is pending after the step.
C24_CloseCancelsTimer ==
  [][((\E k \in BOOLEAN : CallCloseOf(k)) \/ Emitted("close")') => timer' = -1]_vars

\* C25: after the caller's closePort and until the next `open`, no `data` is
\* emitted and the disconnect timer is not armed again, whatever the
\* transport still delivers.
C25_NoDataAfterClose ==
  [][hist.shut => (~Emitted("data")' /\ (timer' # timer => timer' < timer))]_vars

\* C26: two `open` events never follow each other without a `close` between
\* them; stated for the runs in which the transport never fails.
C26_OpenCloseAlternate == (faults = 0 /\ silences = 0) => hist.no <= 1

\* C27: in the reconnect loop of a manager that the caller leaves alone, a
\* reopen attempt that fails leaves no handle behind that was not closed, and
\* when the retry after a failed attempt starts (UDP.ts 690-692) the adapter
\* has no handle and no handle is opening or open.
C27_FailedAttemptClosed ==
  [][/\ (calls' = 0 /\ hist.nc >= 1 /\ \E h \in Handles : OpenFailAt(h)) => ~obs'.leaked
     /\ \A i \in 1..Len(tasks) :
          (calls' = 0 /\ keepOpen /\ TaskIs(i, "retryDelay") /\ DelayAt(i))
            => (port = NoH /\ LiveHandles = {})]_vars

\* C28: the adapter's openPort never replaces a handle that is opening or
\* open by a new one.
C28_NoLiveHandleOverwritten == ~obs.overwrote

\* C29: a closePort of the caller abandons no handle whose OS resource was
\* not closed, and in the step in which it resolves no handle other than the
\* adapter's current one still has the manager's listeners.
C29_CloseReleasesHandle ==
  [][/\ (\E k \in BOOLEAN : CallCloseOf(k)) => ~obs'.leaked
     /\ obs'.cres = "resolved" => \A h \in Handles : h # port' => ~hs'[h].lst]_vars

\* C30: a UDP write that returns true (the adapter is open, the registry is
\* not empty) issued a send to every peer of the registry, so at least one
\* send whose completion calls the callback.
C30_WriteReachesEveryPeer ==
  (kind = "udp" /\ obs.wr.ret) =>
     (obs.wr.sent /\ Ips(clients) \subseteq {x.ip : x \in obs.wr.to})


\* C31: TCP.  A connect timer is pending only while it sits in the adapter's
\* timer slot and the adapter's socket is not yet ready.  When it fires, the
\* step calls the error callback once (one `error`) and starts the close of
\* the socket: end() was called on it and the 5000 ms deadline that destroys
\* it is armed, and stays armed while that socket is not ready.  When `ready`
\* comes first no connect timer is left, so none fires for that connection.
ConnTimers(ts) == {i \in 1..Len(ts) : ts[i].c = "connTimer"}
C32_RegistryPersists ==
  [][(kind = "udp" /\ keepOpen /\ keepOpen') => Ips(clients) \subseteq Ips(clients')]_vars


\* C33: UDP without options.sendPort.  After a datagram from address a and
\* source port p was accepted (passed on as `data`), the registry holds p as
\* the port of a.
C33_PortFollowsSender ==
  [][\A a \in Addrs, p \in Ports :
       (kind = "udp" /\ sendPort = NoPort /\ DataFrom(a, p) /\ Emitted("data")') =>
          \E i \in 1..Len(clients') : clients'[i].ip = a /\ clients'[i].port = p]_vars


\* C34: an openPort of the caller settles however the open ends: in a step
\* after which fewer continuations of the caller's openPort calls are
\* waiting, a promise of openPort resolved or rejected.
CallerOpens(ts) == Cardinality({i \in 1..Len(ts) : ts[i].org = "caller"})
C34_OpenSettles ==
  [][(CallerOpens(tasks') < CallerOpens(tasks) /\ ~hist'.ovf) => obs'.ores # "none"]_vars


\* C35: the `close` event of an old handle does not touch a newer one.  When
\* it arrives while the adapter holds another handle that is opening or open
\* and on which no close was asked for, that handle is as it was after the
\* step.
C35_OldCloseSparesNewHandle ==
  [][\A h \in Handles :
       (/\ HandleClosedAt(h) /\ port # NoH /\ port # h
        /\ hs[port].st \in {"opening", "open"} /\ ~hs[port].ending)
         => (port' # NoH /\ hs'[port'] = hs[port])]_vars


\* C36: portOpen() is true at the moment `open` is emitted.
C36_OpenMeansPortOpen == Emitted("open") => ~obs.openShut


\* C37: attachments do not pile up over reconnects.  The raw stream of a
\* handle that the adapter creates in place of none or of one that is no
\* longer live carries no attachment of an earlier connection, so that the
\* updatePipes of its `open` attaches every registered sink exactly once.
Created ==
  /\ port' # NoH /\ hs'[port'].st = "opening" /\ ~hs'[port'].ending
  /\ port = NoH \/ hs[port].st \notin {"opening", "open"}
C37_PipesDoNotAccumulate == [][Created => att' = << >>]_vars

\* C38: pipe(sink) called while the adapter holds no handle throws nothing and
\* records the registration of the sink.
C38_PipeWithoutHandleRecorded ==
  [][\A d \in Sinks :
       (CallPipeOf(d) /\ port = NoH) =>
          /\ ~obs'.threw
          /\ Len(pipes') = Len(pipes) + 1
          /\ pipes'[Len(pipes')].destination = d]_vars


\* C39: a closePort of the caller resolves in the end.  After the call its
\* promise has resolved or its continuation waits; a continuation that stops
\* waiting resolves the promise; and a continuation that waits for the end()
\* of a TCP socket that is still alive has the 5000 ms deadline armed on that
\* socket, so that it does not depend on the graceful end ever completing.
CallerCloses(ts) == Cardinality({i \in 1..Len(ts) : ts[i].th = "caller"})
C39_CloseResolves ==
  [][/\ (\E k \in BOOLEAN : CallCloseOf(k)) =>
          (obs'.cres = "resolved" \/ CallerCloses(tasks') > CallerCloses(tasks))
     /\ (CallerCloses(tasks') < CallerCloses(tasks) /\ ~hist'.ovf) => obs'.cres = "resolved"
     /\ \A i \in 1..Len(tasks') :
          (/\ tasks'[i].c = "endWait" /\ tasks'[i].th = "caller"
           /\ hs'[tasks'[i].h].st \in {"opening", "open"})
            => \E j \in 1..Len(tasks') :
                 tasks'[j].c = "endWait" /\ tasks'[j].h = tasks'[i].h /\ tasks'[j].tm]_vars


\* C40: what is done on this manager leaves the other manager of the process
\* as it is: the handlers that the other manager registered for the end of
\* the process stay registered.
Registered(who) == Cardinality({i \in 1..Len(exitL) : exitL[i] = who})
C40_InstancesIndependent == [][Registered(Other)' = Registered(Other)]_vars

==========================================================================
